---- MODULE Spec2Model ----
(***************************************************************************)
(* A model of the image cache task of servo-gfx                            *)
(* (src/servo-gfx/resource/image_cache_task.rs): the cache actor and its   *)
(* serial loop, the prefetcher and decoder tasks it spawns, the resource   *)
(* task that answers Load, and clients posting the public messages.        *)
(***************************************************************************)
EXTENDS Integers, Sequences, FiniteSets, TLC

(* ---------------------------------------------------------------------- *)
(* Bounds                                                                 *)
(* ---------------------------------------------------------------------- *)
NumUrls == 2
MaxClientMsgs == 4
MaxFrames == 1
MaxLoadFrames == 2

Urls == 1..NumUrls
NoUrl == 0
Frames == {<<1>>}
LoadFrames == {<<1>>, <<2>>}
Handlers == {"StoreImage", "StorePrefetchedImageData"}

(* ---------------------------------------------------------------------- *)
(* State                                                                  *)
(* ---------------------------------------------------------------------- *)
VARIABLES
    port,          \* the cache's inbox: messages sent and not yet received
    msg,           \* the message of the latest iteration of run (let msg)
    state_map,     \* ImageCache.state_map
    wait_map,      \* ImageCache.wait_map
    need_exit,     \* ImageCache.need_exit: <<>> is None, <<c>> is Some(c)
    msg_handlers,  \* the observers registered by OnMsg (local of run)
    signals,       \* what the observers have signalled to the test
    task,          \* the cache task: "running", "exited" or "failed"
    chans,         \* the reply channels the clients created
    prefetchers,   \* the prefetcher tasks spawned so far
    decoders,      \* the decoder tasks spawned so far
    loads,         \* loads[u]: the Loads the resource task received for u
    sent,          \* the <<type, url>> of the messages the clients have sent
    nsent,         \* the number of steps the clients have taken
    sync_port,     \* the inbox of the task SyncImageCacheTask spawns
    sync_task,     \* that task: "none", "running" or "done"
    calls          \* the observer invocations of the latest iteration of run

vars == <<port, msg, state_map, wait_map, need_exit, msg_handlers, signals, task,
          chans, prefetchers, decoders, loads, sent, nsent, sync_port,
          sync_task, calls>>

(* ---------------------------------------------------------------------- *)
(* Msg, ImageResponseMsg, ImageState                                      *)
(* ---------------------------------------------------------------------- *)
Msg(type, url, chan, result, handler) ==
    [type |-> type, url |-> url, chan |-> chan, result |-> result,
     handler |-> handler]

Prefetch(url) == Msg("Prefetch", url, 0, <<>>, "")
StorePrefetchedImageData(url, data) ==
    Msg("StorePrefetchedImageData", url, 0, data, "")
Decode(url) == Msg("Decode", url, 0, <<>>, "")
StoreImage(url, image) == Msg("StoreImage", url, 0, image, "")
GetImage(url, response) == Msg("GetImage", url, response, <<>>, "")
WaitForImage(url, response) == Msg("WaitForImage", url, response, <<>>, "")
OnMsg(handler) == Msg("OnMsg", NoUrl, 0, <<>>, handler)
Exit(response) == Msg("Exit", NoUrl, response, <<>>, "")

\* Result<Cell<~[u8]>, ()> and Option<ARC<~Image>>
Ok(data) == <<"Ok", data>>
Err == <<"Err">>
Some(image) == <<"Some", image>>
None == <<"None">>

ImageReady(image) == <<"ImageReady", image>>
ImageNotReady == <<"ImageNotReady">>
ImageFailed == <<"ImageFailed">>
Ack == <<"()">>

\* ImageState; cell is the @Cell of Prefetched: <<data>> when full, <<>> when
\* taken; image is the @ARC of Decoded.
State(tag, next, cell, image) ==
    [tag |-> tag, next |-> next, cell |-> cell, image |-> image]
Init_ == State("Init", "", <<>>, <<>>)
Prefetching(next) == State("Prefetching", next, <<>>, <<>>)
Prefetched(cell) == State("Prefetched", "", cell, <<>>)
Decoding == State("Decoding", "", <<>>, <<>>)
Decoded(image) == State("Decoded", "", <<>>, image)
Failed == State("Failed", "", <<>>, <<>>)

\* what the decoder makes of the bytes when it accepts them
Image(data) == <<"Image", data>>

(* ---------------------------------------------------------------------- *)
(* Channels                                                               *)
(* ---------------------------------------------------------------------- *)
\* response.send(x): delivered unless the receiver was dropped
ChanSend(cs, c, x) ==
    IF cs[c].closed THEN cs
    ELSE [cs EXCEPT ![c].resp = Append(@, x)]

(* ---------------------------------------------------------------------- *)
(* The handlers of ImageCache.  Each takes and returns the part of the    *)
(* world a handler can touch: w.state_map, w.wait_map, the reply channels *)
(* w.chans, the tasks spawned w.prefetchers and w.decoders, and w.failed, *)
(* set when the handler ran into fail!() or a failing assert.             *)
(* ---------------------------------------------------------------------- *)
MapInsert(m, k, v) == [x \in DOMAIN m \cup {k} |-> IF x = k THEN v ELSE m[x]]
MapRemove(m, k) == [x \in DOMAIN m \ {k} |-> m[x]]

Fail(w) == [w EXCEPT !.failed = TRUE]

get_state(w, url) ==
    IF url \in DOMAIN w.state_map THEN w.state_map[url] ELSE Init_

\* a set_state that starts a new map instead of inserting in the old one
set_state_clear(w, url, state) ==
    [w EXCEPT !.state_map = MapInsert(<<>>, url, state)]

set_state(w, url, state) ==
    [w EXCEPT !.state_map = MapInsert(@, url, state)]

\* progress: the progress messages the resource task has sent this prefetcher
PrefetcherTask(url) ==
    [url |-> url, pc |-> "start", image_data |-> <<>>, progress |-> <<>>]
DecoderTask(url, data) == [url |-> url, pc |-> "start", data |-> data]

\* a prefetch that fetches again after a failure
prefetch_retry(w, url) ==
    IF get_state(w, url).tag \in {"Init", "Failed"}
    THEN set_state([w EXCEPT !.prefetchers = Append(@, PrefetcherTask(url))],
                   url, Prefetching("DoNotDecode"))
    ELSE w

\* a prefetch that starts another fetch while one is running
prefetch_respawn(w, url) ==
    LET s == get_state(w, url) IN
    CASE s.tag = "Init" ->
            set_state([w EXCEPT !.prefetchers = Append(@, PrefetcherTask(url))],
                      url, Prefetching("DoNotDecode"))
      [] s.tag = "Prefetching" ->
            [w EXCEPT !.prefetchers = Append(@, PrefetcherTask(url))]
      [] OTHER -> w

prefetch(w, url) ==
    IF get_state(w, url).tag = "Init"
    THEN set_state([w EXCEPT !.prefetchers = Append(@, PrefetcherTask(url))],
                   url, Prefetching("DoNotDecode"))
    ELSE w

\* a decode that spawns the decoder but leaves the state Prefetched
decode_no_set_state(w, url) ==
    LET s == get_state(w, url) IN
    CASE s.tag = "Init" -> Fail(w)
      [] s.tag = "Prefetching" /\ s.next = "DoNotDecode" ->
            set_state(w, url, Prefetching("DoDecode"))
      [] s.tag = "Prefetching" /\ s.next = "DoDecode" -> w
      [] s.tag = "Prefetched" ->
            [w EXCEPT !.decoders = Append(@, DecoderTask(url, s.cell[1]))]
      [] OTHER -> w

\* a decode that takes the bytes out of the cell and leaves the state
\* Prefetched, with the emptied cell
decode_leave_prefetched(w, url) ==
    LET s == get_state(w, url) IN
    CASE s.tag = "Init" -> Fail(w)
      [] s.tag = "Prefetching" /\ s.next = "DoNotDecode" ->
            set_state(w, url, Prefetching("DoDecode"))
      [] s.tag = "Prefetching" /\ s.next = "DoDecode" -> w
      [] s.tag = "Prefetched" ->
            IF s.cell = <<>> THEN Fail(w)
            ELSE set_state(
                   [w EXCEPT !.decoders = Append(@, DecoderTask(url, s.cell[1]))],
                   url, Prefetched(<<>>))
      [] OTHER -> w

\* a decode that starts another decoder while one is running
decode_respawn(w, url) ==
    LET s == get_state(w, url) IN
    CASE s.tag = "Init" -> Fail(w)
      [] s.tag = "Prefetching" /\ s.next = "DoNotDecode" ->
            set_state(w, url, Prefetching("DoDecode"))
      [] s.tag = "Prefetching" /\ s.next = "DoDecode" -> w
      [] s.tag = "Prefetched" ->
            IF s.cell = <<>> THEN Fail(w)
            ELSE set_state(
                   [w EXCEPT !.decoders = Append(@, DecoderTask(url, s.cell[1]))],
                   url, Decoding)
      [] s.tag = "Decoding" ->
            [w EXCEPT !.decoders = Append(@, DecoderTask(url, <<>>))]
      [] OTHER -> w

\* a decode that forgets to queue the request while the fetch is running
decode_no_queue(w, url) ==
    LET s == get_state(w, url) IN
    CASE s.tag = "Init" -> Fail(w)
      [] s.tag = "Prefetching" -> w
      [] s.tag = "Prefetched" ->
            IF s.cell = <<>> THEN Fail(w)
            ELSE set_state(
                   [w EXCEPT !.decoders = Append(@, DecoderTask(url, s.cell[1]))],
                   url, Decoding)
      [] OTHER -> w

decode(w, url) ==
    LET s == get_state(w, url) IN
    CASE s.tag = "Init" -> Fail(w)
      [] s.tag = "Prefetching" /\ s.next = "DoNotDecode" ->
            set_state(w, url, Prefetching("DoDecode"))
      [] s.tag = "Prefetching" /\ s.next = "DoDecode" -> w
      [] s.tag = "Prefetched" ->
            IF s.cell = <<>> THEN Fail(w)
            ELSE set_state(
                   [w EXCEPT !.decoders = Append(@, DecoderTask(url, s.cell[1]))],
                   url, Decoding)
      [] OTHER -> w

\* a purge_waiters whose loop stops one waiter short
purge_waiters_skip_last(w, url, f) ==
    IF url \in DOMAIN w.wait_map
    THEN LET new_waiters == w.wait_map[url]
             SendAll[i \in 0..Len(new_waiters)] ==
                 IF i = 0 THEN w.chans
                 ELSE ChanSend(SendAll[i - 1], new_waiters[i], f)
         IN [w EXCEPT !.chans = SendAll[Len(new_waiters) - 1],
                      !.wait_map = MapRemove(@, url)]
    ELSE w

\* a purge_waiters that answers the waiters but keeps their entry
purge_waiters_keep(w, url, f) ==
    IF url \in DOMAIN w.wait_map
    THEN LET new_waiters == w.wait_map[url]
             SendAll[i \in 0..Len(new_waiters)] ==
                 IF i = 0 THEN w.chans
                 ELSE ChanSend(SendAll[i - 1], new_waiters[i], f)
         IN [w EXCEPT !.chans = SendAll[Len(new_waiters)]]
    ELSE w

purge_waiters(w, url, f) ==
    IF url \in DOMAIN w.wait_map
    THEN LET new_waiters == w.wait_map[url]
             SendAll[i \in 0..Len(new_waiters)] ==
                 IF i = 0 THEN w.chans
                 ELSE ChanSend(SendAll[i - 1], new_waiters[i], f)
         IN [w EXCEPT !.chans = SendAll[Len(new_waiters)],
                      !.wait_map = MapRemove(@, url)]
    ELSE w

\* a store_prefetched_image_data that records the failure but leaves the
\* waiters alone
store_prefetched_image_data_no_purge(w, url, data) ==
    LET s == get_state(w, url) IN
    IF s.tag = "Prefetching"
    THEN IF data[1] = "Ok"
         THEN LET w1 == set_state(w, url, Prefetched(<<data[2]>>)) IN
              IF s.next = "DoDecode" THEN decode(w1, url) ELSE w1
         ELSE set_state(w, url, Failed)
    ELSE Fail(w)

\* a store_prefetched_image_data that leaves the queued decode undone
store_prefetched_image_data_no_decode(w, url, data) ==
    LET s == get_state(w, url) IN
    IF s.tag = "Prefetching"
    THEN IF data[1] = "Ok"
         THEN set_state(w, url, Prefetched(<<data[2]>>))
         ELSE purge_waiters(set_state(w, url, Failed), url, ImageFailed)
    ELSE Fail(w)

\* a store_prefetched_image_data that keeps the bytes nobody asked to
\* decode yet without recording that the fetch is over
store_prefetched_image_data_no_set_state(w, url, data) ==
    LET s == get_state(w, url) IN
    IF s.tag = "Prefetching"
    THEN IF data[1] = "Ok"
         THEN IF s.next = "DoDecode"
              THEN decode(set_state(w, url, Prefetched(<<data[2]>>)), url)
              ELSE w
         ELSE purge_waiters(set_state(w, url, Failed), url, ImageFailed)
    ELSE Fail(w)

store_prefetched_image_data(w, url, data) ==
    LET s == get_state(w, url) IN
    IF s.tag = "Prefetching"
    THEN IF data[1] = "Ok"
         THEN LET w1 == set_state(w, url, Prefetched(<<data[2]>>)) IN
              IF s.next = "DoDecode" THEN decode(w1, url) ELSE w1
         ELSE purge_waiters(set_state(w, url, Failed), url, ImageFailed)
    ELSE Fail(w)

\* a store_image that hands the image to the waiters but does not record it
store_image_no_set_state(w, url, image) ==
    IF get_state(w, url).tag = "Decoding"
    THEN IF image[1] = "Some"
         THEN purge_waiters(w, url, ImageReady(image[2]))
         ELSE purge_waiters(set_state(w, url, Failed), url, ImageFailed)
    ELSE Fail(w)

\* a store_image that records the decode failure but leaves the waiters alone
store_image_no_purge(w, url, image) ==
    IF get_state(w, url).tag = "Decoding"
    THEN IF image[1] = "Some"
         THEN purge_waiters(set_state(w, url, Decoded(image[2])), url,
                            ImageReady(image[2]))
         ELSE set_state(w, url, Failed)
    ELSE Fail(w)

\* a store_image that records the image but leaves the waiters alone
store_image_no_purge_ready(w, url, image) ==
    IF get_state(w, url).tag = "Decoding"
    THEN IF image[1] = "Some"
         THEN set_state(w, url, Decoded(image[2]))
         ELSE purge_waiters(set_state(w, url, Failed), url, ImageFailed)
    ELSE Fail(w)

store_image(w, url, image) ==
    IF get_state(w, url).tag = "Decoding"
    THEN IF image[1] = "Some"
         THEN purge_waiters(set_state(w, url, Decoded(image[2])), url,
                            ImageReady(image[2]))
         ELSE purge_waiters(set_state(w, url, Failed), url, ImageFailed)
    ELSE Fail(w)

\* a get_image that forgets to answer while the decoder runs
get_image_silent(w, url, response) ==
    LET s == get_state(w, url) IN
    CASE s.tag = "Init" -> Fail(w)
      [] s.tag = "Prefetching" /\ s.next = "DoDecode" ->
            [w EXCEPT !.chans = ChanSend(@, response, ImageNotReady)]
      [] s.tag = "Prefetching" /\ s.next = "DoNotDecode" -> Fail(w)
      [] s.tag = "Prefetched" -> Fail(w)
      [] s.tag = "Decoding" -> w
      [] s.tag = "Decoded" ->
            [w EXCEPT !.chans = ChanSend(@, response, ImageReady(s.image))]
      [] s.tag = "Failed" ->
            [w EXCEPT !.chans = ChanSend(@, response, ImageFailed)]

\* a get_image that answers ImageNotReady when the bytes are there but no
\* decode was requested
get_image_lenient(w, url, response) ==
    LET s == get_state(w, url) IN
    CASE s.tag = "Init" -> Fail(w)
      [] s.tag = "Prefetching" /\ s.next = "DoDecode" ->
            [w EXCEPT !.chans = ChanSend(@, response, ImageNotReady)]
      [] s.tag = "Prefetching" /\ s.next = "DoNotDecode" -> Fail(w)
      [] s.tag = "Prefetched" ->
            [w EXCEPT !.chans = ChanSend(@, response, ImageNotReady)]
      [] s.tag = "Decoding" ->
            [w EXCEPT !.chans = ChanSend(@, response, ImageNotReady)]
      [] s.tag = "Decoded" ->
            [w EXCEPT !.chans = ChanSend(@, response, ImageReady(s.image))]
      [] s.tag = "Failed" ->
            [w EXCEPT !.chans = ChanSend(@, response, ImageFailed)]

\* a get_image that answers ImageNotReady and also enrols the channel
get_image_enrol(w, url, response) ==
    LET s == get_state(w, url) IN
    CASE s.tag = "Init" -> Fail(w)
      [] s.tag = "Prefetching" /\ s.next = "DoDecode" ->
            [w EXCEPT !.chans = ChanSend(@, response, ImageNotReady)]
      [] s.tag = "Prefetching" /\ s.next = "DoNotDecode" -> Fail(w)
      [] s.tag = "Prefetched" -> Fail(w)
      [] s.tag = "Decoding" ->
            [w EXCEPT !.chans = ChanSend(@, response, ImageNotReady),
                      !.wait_map = MapInsert(@, url,
                          (IF url \in DOMAIN @ THEN @[url] ELSE <<>>)
                              \o <<response>>)]
      [] s.tag = "Decoded" ->
            [w EXCEPT !.chans = ChanSend(@, response, ImageReady(s.image))]
      [] s.tag = "Failed" ->
            [w EXCEPT !.chans = ChanSend(@, response, ImageFailed)]

\* a get_image that answers ImageNotReady for a URL that has failed
get_image_failed_not_ready(w, url, response) ==
    LET s == get_state(w, url) IN
    CASE s.tag = "Init" -> Fail(w)
      [] s.tag = "Prefetching" /\ s.next = "DoDecode" ->
            [w EXCEPT !.chans = ChanSend(@, response, ImageNotReady)]
      [] s.tag = "Prefetching" /\ s.next = "DoNotDecode" -> Fail(w)
      [] s.tag = "Prefetched" -> Fail(w)
      [] s.tag = "Decoding" ->
            [w EXCEPT !.chans = ChanSend(@, response, ImageNotReady)]
      [] s.tag = "Decoded" ->
            [w EXCEPT !.chans = ChanSend(@, response, ImageReady(s.image))]
      [] s.tag = "Failed" ->
            [w EXCEPT !.chans = ChanSend(@, response, ImageNotReady)]

get_image(w, url, response) ==
    LET s == get_state(w, url) IN
    CASE s.tag = "Init" -> Fail(w)
      [] s.tag = "Prefetching" /\ s.next = "DoDecode" ->
            [w EXCEPT !.chans = ChanSend(@, response, ImageNotReady)]
      [] s.tag = "Prefetching" /\ s.next = "DoNotDecode" -> Fail(w)
      [] s.tag = "Prefetched" -> Fail(w)
      [] s.tag = "Decoding" ->
            [w EXCEPT !.chans = ChanSend(@, response, ImageNotReady)]
      [] s.tag = "Decoded" ->
            [w EXCEPT !.chans = ChanSend(@, response, ImageReady(s.image))]
      [] s.tag = "Failed" ->
            [w EXCEPT !.chans = ChanSend(@, response, ImageFailed)]

\* a wait_for_image that enrols a waiter for a URL that was never prefetched
wait_for_image_lenient(w, url, response) ==
    LET s == get_state(w, url) IN
    CASE s.tag = "Init" ->
            [w EXCEPT !.wait_map = MapInsert(@, url, <<response>>)]
      [] s.tag = "Prefetching" /\ s.next = "DoNotDecode" -> Fail(w)
      [] s.tag = "Prefetched" -> Fail(w)
      [] (s.tag = "Prefetching" /\ s.next = "DoDecode") \/ s.tag = "Decoding" ->
            IF url \in DOMAIN w.wait_map
            THEN [w EXCEPT !.wait_map[url] = Append(@, response)]
            ELSE [w EXCEPT !.wait_map = MapInsert(@, url, <<response>>)]
      [] s.tag = "Decoded" ->
            [w EXCEPT !.chans = ChanSend(@, response, ImageReady(s.image))]
      [] s.tag = "Failed" ->
            [w EXCEPT !.chans = ChanSend(@, response, ImageFailed)]

\* a wait_for_image that enrols the waiter of a failed URL
wait_for_image_failed_enrol(w, url, response) ==
    LET s == get_state(w, url) IN
    CASE s.tag = "Init" -> Fail(w)
      [] s.tag = "Prefetching" /\ s.next = "DoNotDecode" -> Fail(w)
      [] s.tag = "Prefetched" -> Fail(w)
      [] (s.tag = "Prefetching" /\ s.next = "DoDecode")
           \/ s.tag \in {"Decoding", "Failed"} ->
            IF url \in DOMAIN w.wait_map
            THEN [w EXCEPT !.wait_map[url] = Append(@, response)]
            ELSE [w EXCEPT !.wait_map = MapInsert(@, url, <<response>>)]
      [] s.tag = "Decoded" ->
            [w EXCEPT !.chans = ChanSend(@, response, ImageReady(s.image))]

\* a wait_for_image whose insert replaces the waiters already enrolled
wait_for_image_overwrite(w, url, response) ==
    LET s == get_state(w, url) IN
    CASE s.tag = "Init" -> Fail(w)
      [] s.tag = "Prefetching" /\ s.next = "DoNotDecode" -> Fail(w)
      [] s.tag = "Prefetched" -> Fail(w)
      [] (s.tag = "Prefetching" /\ s.next = "DoDecode") \/ s.tag = "Decoding" ->
            [w EXCEPT !.wait_map = MapInsert(@, url, <<response>>)]
      [] s.tag = "Decoded" ->
            [w EXCEPT !.chans = ChanSend(@, response, ImageReady(s.image))]
      [] s.tag = "Failed" ->
            [w EXCEPT !.chans = ChanSend(@, response, ImageFailed)]

\* a wait_for_image that answers like get_image while the image is in the
\* making
wait_for_image_not_ready(w, url, response) ==
    LET s == get_state(w, url) IN
    CASE s.tag = "Init" -> Fail(w)
      [] s.tag = "Prefetching" /\ s.next = "DoNotDecode" -> Fail(w)
      [] s.tag = "Prefetched" -> Fail(w)
      [] (s.tag = "Prefetching" /\ s.next = "DoDecode") \/ s.tag = "Decoding" ->
            [w EXCEPT !.chans = ChanSend(@, response, ImageNotReady)]
      [] s.tag = "Decoded" ->
            [w EXCEPT !.chans = ChanSend(@, response, ImageReady(s.image))]
      [] s.tag = "Failed" ->
            [w EXCEPT !.chans = ChanSend(@, response, ImageFailed)]

\* a wait_for_image that enrols the waiter of a decoded URL
wait_for_image_always_enrol(w, url, response) ==
    LET s == get_state(w, url) IN
    CASE s.tag = "Init" -> Fail(w)
      [] s.tag = "Prefetching" /\ s.next = "DoNotDecode" -> Fail(w)
      [] s.tag = "Prefetched" -> Fail(w)
      [] (s.tag = "Prefetching" /\ s.next = "DoDecode")
           \/ s.tag \in {"Decoding", "Decoded"} ->
            IF url \in DOMAIN w.wait_map
            THEN [w EXCEPT !.wait_map[url] = Append(@, response)]
            ELSE [w EXCEPT !.wait_map = MapInsert(@, url, <<response>>)]
      [] s.tag = "Failed" ->
            [w EXCEPT !.chans = ChanSend(@, response, ImageFailed)]

\* a wait_for_image that enrols the waiter and also tells it ImageNotReady
wait_for_image_enrol_and_answer(w, url, response) ==
    LET s == get_state(w, url) IN
    CASE s.tag = "Init" -> Fail(w)
      [] s.tag = "Prefetching" /\ s.next = "DoNotDecode" -> Fail(w)
      [] s.tag = "Prefetched" -> Fail(w)
      [] (s.tag = "Prefetching" /\ s.next = "DoDecode") \/ s.tag = "Decoding" ->
            LET w1 == [w EXCEPT
                          !.chans = ChanSend(@, response, ImageNotReady)]
            IN IF url \in DOMAIN w.wait_map
               THEN [w1 EXCEPT !.wait_map[url] = Append(@, response)]
               ELSE [w1 EXCEPT !.wait_map = MapInsert(@, url, <<response>>)]
      [] s.tag = "Decoded" ->
            [w EXCEPT !.chans = ChanSend(@, response, ImageReady(s.image))]
      [] s.tag = "Failed" ->
            [w EXCEPT !.chans = ChanSend(@, response, ImageFailed)]

wait_for_image(w, url, response) ==
    LET s == get_state(w, url) IN
    CASE s.tag = "Init" -> Fail(w)
      [] s.tag = "Prefetching" /\ s.next = "DoNotDecode" -> Fail(w)
      [] s.tag = "Prefetched" -> Fail(w)
      [] (s.tag = "Prefetching" /\ s.next = "DoDecode") \/ s.tag = "Decoding" ->
            IF url \in DOMAIN w.wait_map
            THEN [w EXCEPT !.wait_map[url] = Append(@, response)]
            ELSE [w EXCEPT !.wait_map = MapInsert(@, url, <<response>>)]
      [] s.tag = "Decoded" ->
            [w EXCEPT !.chans = ChanSend(@, response, ImageReady(s.image))]
      [] s.tag = "Failed" ->
            [w EXCEPT !.chans = ChanSend(@, response, ImageFailed)]


(* ---------------------------------------------------------------------- *)
(* ImageCache.run: one iteration of the loop per received message         *)
(* ---------------------------------------------------------------------- *)
World ==
    [state_map |-> state_map, wait_map |-> wait_map, chans |-> chans,
     prefetchers |-> prefetchers, decoders |-> decoders,
     need_exit |-> need_exit, msg_handlers |-> msg_handlers,
     failed |-> FALSE, exited |-> FALSE]

\* The test observers: handler h signals the test when it is shown a
\* message of type h (match *msg { StoreImage(*) => chan.send(()), _ => () }).
Signal(m) ==
    <<m.type, m.url, IF m.result = <<>> THEN "" ELSE m.result[1]>>

invoke_handlers(sig, handlers, m) ==
    sig \cup {Signal(m) : i \in {j \in 1..Len(handlers) : handlers[j] = m.type}}

\* a dispatch whose Exit arm overwrites a pending Exit without asserting
dispatch_overwrite_exit(w, msg_) ==
    CASE msg_.type = "Prefetch" -> prefetch(w, msg_.url)
      [] msg_.type = "StorePrefetchedImageData" ->
            store_prefetched_image_data(w, msg_.url, msg_.result)
      [] msg_.type = "Decode" -> decode(w, msg_.url)
      [] msg_.type = "StoreImage" -> store_image(w, msg_.url, msg_.result)
      [] msg_.type = "GetImage" -> get_image(w, msg_.url, msg_.chan)
      [] msg_.type = "WaitForImage" -> wait_for_image(w, msg_.url, msg_.chan)
      [] msg_.type = "OnMsg" ->
            [w EXCEPT !.msg_handlers = Append(@, msg_.handler)]
      [] msg_.type = "Exit" -> [w EXCEPT !.need_exit = <<msg_.chan>>]

\* a dispatch that, once an Exit is pending, only takes the reports of the
\* workers and drops what the clients send
dispatch_gated(w, msg_) ==
    CASE msg_.type = "StorePrefetchedImageData" ->
            store_prefetched_image_data(w, msg_.url, msg_.result)
      [] msg_.type = "StoreImage" -> store_image(w, msg_.url, msg_.result)
      [] msg_.type = "Exit" ->
            IF w.need_exit # <<>> THEN Fail(w)
            ELSE [w EXCEPT !.need_exit = <<msg_.chan>>]
      [] OTHER ->
            IF w.need_exit # <<>> THEN w
            ELSE CASE msg_.type = "Prefetch" -> prefetch(w, msg_.url)
                   [] msg_.type = "Decode" -> decode(w, msg_.url)
                   [] msg_.type = "GetImage" ->
                         get_image(w, msg_.url, msg_.chan)
                   [] msg_.type = "WaitForImage" ->
                         wait_for_image(w, msg_.url, msg_.chan)
                   [] msg_.type = "OnMsg" ->
                         [w EXCEPT !.msg_handlers = Append(@, msg_.handler)]

dispatch(w, msg_) ==
    CASE msg_.type = "Prefetch" -> prefetch(w, msg_.url)
      [] msg_.type = "StorePrefetchedImageData" ->
            store_prefetched_image_data(w, msg_.url, msg_.result)
      [] msg_.type = "Decode" -> decode(w, msg_.url)
      [] msg_.type = "StoreImage" -> store_image(w, msg_.url, msg_.result)
      [] msg_.type = "GetImage" -> get_image(w, msg_.url, msg_.chan)
      [] msg_.type = "WaitForImage" -> wait_for_image(w, msg_.url, msg_.chan)
      [] msg_.type = "OnMsg" ->
            [w EXCEPT !.msg_handlers = Append(@, msg_.handler)]
      [] msg_.type = "Exit" ->
            IF w.need_exit # <<>> THEN Fail(w)
            ELSE [w EXCEPT !.need_exit = <<msg_.chan>>]

\* a loop that runs the observers once the message has been dispatched
handler_calls_after_dispatch(w, m) ==
    LET w1 == dispatch(w, m) IN
    [i \in 1..Len(w1.msg_handlers) |->
        [index |-> i, handler |-> w1.msg_handlers[i],
         tag |-> get_state(w1, m.url).tag]]

\* a loop that runs the observers from the latest registered to the first
handler_calls_reversed(w, m) ==
    [i \in 1..Len(w.msg_handlers) |->
        [index |-> Len(w.msg_handlers) + 1 - i,
         handler |-> w.msg_handlers[Len(w.msg_handlers) + 1 - i],
         tag |-> get_state(w, m.url).tag]]

\* for msg_handlers.each |handler| { (*handler)(&msg) }: the invocations
\* in the order they are made, each with the state the URL of the message
\* is in when the observer runs
handler_calls(w, m) ==
    [i \in 1..Len(w.msg_handlers) |->
        [index |-> i, handler |-> w.msg_handlers[i],
         tag |-> get_state(w, m.url).tag]]

\* a quiescence test that overlooks the running decoders
can_exit_no_decoding(sm) ==
    \A u \in DOMAIN sm : sm[u].tag \notin {"Prefetching"}

\* a quiescence test that overlooks the running prefetchers
can_exit_no_prefetching(sm) ==
    \A u \in DOMAIN sm : sm[u].tag \notin {"Decoding"}

can_exit(sm) ==
    \A u \in DOMAIN sm : sm[u].tag \notin {"Prefetching", "Decoding"}

\* an acknowledgement that is not followed by the break out of the loop
check_exit_no_break(w) ==
    IF w.failed \/ w.need_exit = <<>> THEN w
    ELSE IF can_exit(w.state_map)
         THEN [w EXCEPT !.chans = ChanSend(@, w.need_exit[1], Ack),
                        !.need_exit = <<>>]
         ELSE w

\* a pending Exit that is not put back when the cache is not yet quiescent
check_exit_forget(w) ==
    IF w.failed \/ w.need_exit = <<>> THEN w
    ELSE IF can_exit(w.state_map)
         THEN [w EXCEPT !.chans = ChanSend(@, w.need_exit[1], Ack),
                        !.need_exit = <<>>,
                        !.exited = TRUE]
         ELSE [w EXCEPT !.need_exit = <<>>]

check_exit(w) ==
    IF w.failed \/ w.need_exit = <<>> THEN w
    ELSE IF can_exit(w.state_map)
         THEN [w EXCEPT !.chans = ChanSend(@, w.need_exit[1], Ack),
                        !.need_exit = <<>>,
                        !.exited = TRUE]
         ELSE w

run(type) ==
    /\ task = "running"
    /\ port # <<>>
    /\ Head(port).type = type
    /\ LET m == Head(port)
           w == check_exit(dispatch(World, m))
       IN /\ port' = Tail(port)
          /\ msg' = m
          /\ signals' = invoke_handlers(signals, msg_handlers, m)
          /\ calls' = handler_calls(World, m)
          /\ state_map' = w.state_map
          /\ wait_map' = w.wait_map
          /\ chans' = w.chans
          /\ prefetchers' = w.prefetchers
          /\ decoders' = w.decoders
          /\ need_exit' = w.need_exit
          /\ msg_handlers' = w.msg_handlers
          /\ task' = IF w.failed THEN "failed"
                     ELSE IF w.exited THEN "exited" ELSE "running"
    /\ UNCHANGED <<sync_port, sync_task, loads, sent, nsent>>

RecvPrefetch == run("Prefetch")
RecvStorePrefetchedImageData == run("StorePrefetchedImageData")
RecvDecode == run("Decode")
RecvStoreImage == run("StoreImage")
RecvGetImage == run("GetImage")
RecvWaitForImage == run("WaitForImage")
RecvOnMsg == run("OnMsg")
RecvExit == run("Exit")

CacheStep ==
    \/ RecvPrefetch \/ RecvStorePrefetchedImageData \/ RecvDecode
    \/ RecvStoreImage \/ RecvGetImage \/ RecvWaitForImage \/ RecvOnMsg
    \/ RecvExit

(* ---------------------------------------------------------------------- *)
(* The prefetcher task (the closure spawned by prefetch, and              *)
(* load_image_data) against the resource task                             *)
(* ---------------------------------------------------------------------- *)
Payload(data) == <<"Payload", data>>
Done(ok) == <<"Done", ok>>

\* resource_task.send(Load(url, response_chan))
PrefetcherLoad(i) ==
    /\ i \in 1..Len(prefetchers)
    /\ prefetchers[i].pc = "start"
    /\ prefetchers' = [prefetchers EXCEPT ![i].pc = "recv"]
    /\ loads' = [loads EXCEPT ![prefetchers[i].url] = @ + 1]
    /\ UNCHANGED <<sync_port, sync_task, calls,
                   msg, port, state_map, wait_map, need_exit, msg_handlers,
                   signals, task, chans, decoders, sent, nsent>>

\* one turn of the loop of load_image_data on the progress message m:
\* <<image_data, result>>, result <<>> while the loop goes on
\* a load_image_data that puts each new frame in front of the earlier ones
load_image_data_prepend(image_data, m) ==
    CASE m[1] = "Payload" -> <<m[2] \o image_data, <<>>>>
      [] m[1] = "Done" /\ m[2] -> <<image_data, Ok(image_data)>>
      [] m[1] = "Done" /\ ~m[2] -> <<image_data, Err>>

load_image_data(image_data, m) ==
    CASE m[1] = "Payload" -> <<image_data \o m[2], <<>>>>
      [] m[1] = "Done" /\ m[2] -> <<image_data, Ok(image_data)>>
      [] m[1] = "Done" /\ ~m[2] -> <<image_data, Err>>

\* the resource task sends m on the response channel of prefetcher i, which
\* receives it; when load_image_data returns, the task posts its report.
PrefetcherRecv(i, m) ==
    /\ i \in 1..Len(prefetchers)
    /\ prefetchers[i].pc = "recv"
    /\ LET r == load_image_data(prefetchers[i].image_data, m) IN
       IF r[2] = <<>>
       THEN /\ prefetchers' = [prefetchers EXCEPT
                                  ![i].image_data = r[1],
                                  ![i].progress = Append(@, m)]
            /\ port' = port
       ELSE /\ prefetchers' = [prefetchers EXCEPT
                                  ![i].pc = "done",
                                  ![i].progress = Append(@, m)]
            /\ port' = Append(port,
                          StorePrefetchedImageData(prefetchers[i].url, r[2]))
    /\ UNCHANGED <<sync_port, sync_task, calls,
                   msg, state_map, wait_map, need_exit, msg_handlers, signals,
                   task, chans, decoders, loads, sent, nsent>>

ResourcePayload == \E i \in 1..Len(prefetchers), d \in Frames :
                       /\ Len(prefetchers[i].progress) < MaxFrames
                       /\ PrefetcherRecv(i, Payload(d))
ResourceDone == \E i \in 1..Len(prefetchers), ok \in BOOLEAN :
                    PrefetcherRecv(i, Done(ok))
PrefetcherStart == \E i \in 1..Len(prefetchers) : PrefetcherLoad(i)

(* ---------------------------------------------------------------------- *)
(* The decoder task (the closure spawned by decode).  The decoder is the  *)
(* callable the factory made: it accepts the bytes or rejects them.       *)
(* ---------------------------------------------------------------------- *)
DecoderRun(i, accepts) ==
    /\ i \in 1..Len(decoders)
    /\ decoders[i].pc = "start"
    /\ decoders' = [decoders EXCEPT ![i].pc = "done"]
    /\ port' = Append(port,
                  StoreImage(decoders[i].url,
                             IF accepts THEN Some(Image(decoders[i].data))
                             ELSE None))
    /\ UNCHANGED <<sync_port, sync_task, calls,
                   msg, state_map, wait_map, need_exit, msg_handlers, signals,
                   task, chans, prefetchers, loads, sent, nsent>>

DecoderStep == \E i \in 1..Len(decoders), accepts \in BOOLEAN :
                   DecoderRun(i, accepts)


(* ---------------------------------------------------------------------- *)
(* Clients: any task holding a clone of the SharedChan<Msg>               *)
(* ---------------------------------------------------------------------- *)
\* stream(): a fresh reply channel; seen is what the observers had signalled
\* to the client when it created the channel
NewChan(kind, url) ==
    [kind |-> kind, url |-> url, resp |-> <<>>, closed |-> FALSE,
     seen |-> signals]

ClientSend(m, newchans) ==
    /\ nsent < MaxClientMsgs
    /\ nsent' = nsent + 1
    /\ port' = Append(port, m)
    /\ chans' = chans \o newchans
    /\ sent' = sent \cup {<<m.type, m.url>>}
    /\ UNCHANGED <<sync_port, sync_task, calls,
                   msg, state_map, wait_map, need_exit, msg_handlers, signals,
                   task, prefetchers, decoders, loads>>

SendPrefetch == \E u \in Urls : ClientSend(Prefetch(u), <<>>)
SendDecode == \E u \in Urls : ClientSend(Decode(u), <<>>)
SendGetImage ==
    \E u \in Urls :
        ClientSend(GetImage(u, Len(chans) + 1), <<NewChan("GetImage", u)>>)
SendWaitForImage ==
    \E u \in Urls :
        ClientSend(WaitForImage(u, Len(chans) + 1),
                   <<NewChan("WaitForImage", u)>>)
SendOnMsg == \E h \in Handlers : ClientSend(OnMsg(h), <<>>)
\* ImageCacheTaskClient::exit, up to its response_port.recv()
SendExit == ClientSend(Exit(Len(chans) + 1), <<NewChan("Exit", NoUrl)>>)

\* a client drops the receiving end of a reply channel it still waits on
DropPort ==
    \E c \in 1..Len(chans) :
        /\ nsent < MaxClientMsgs
        /\ ~chans[c].closed
        /\ chans[c].resp = <<>>
        /\ chans[c].kind # "Exit"
        /\ chans' = [chans EXCEPT ![c].closed = TRUE]
        /\ nsent' = nsent + 1
        /\ UNCHANGED <<sync_port, sync_task, calls,
                       msg, port, state_map, wait_map, need_exit, msg_handlers,
                       signals, task, prefetchers, decoders, loads, sent>>

ClientStep ==
    \/ SendPrefetch \/ SendDecode \/ SendGetImage \/ SendWaitForImage
    \/ SendOnMsg \/ SendExit \/ DropPort

(* ---------------------------------------------------------------------- *)
(* The system                                                             *)
(* ---------------------------------------------------------------------- *)
\* ImageCacheTask_: the state the cache task starts run() with
NoMsg == Msg("", NoUrl, 0, <<>>, "")

InitCache ==
    /\ port = <<>>
    /\ msg = NoMsg
    /\ state_map = <<>>
    /\ wait_map = <<>>
    /\ need_exit = <<>>
    /\ msg_handlers = <<>>
    /\ signals = {}
    /\ task = "running"
    /\ chans = <<>>
    /\ prefetchers = <<>>
    /\ decoders = <<>>
    /\ loads = [u \in Urls |-> 0]
    /\ sent = {}
    /\ nsent = 0

\* ImageCacheTask(resource_task): the cache alone, no wrapper task
Init ==
    /\ InitCache
    /\ sync_port = <<>>
    /\ sync_task = "none"
    /\ calls = <<>>

Next ==
    \/ RecvPrefetch \/ RecvStorePrefetchedImageData \/ RecvDecode
    \/ RecvStoreImage \/ RecvGetImage \/ RecvWaitForImage \/ RecvOnMsg
    \/ RecvExit
    \/ PrefetcherStart \/ ResourcePayload \/ ResourceDone \/ DecoderStep
    \/ SendPrefetch \/ SendDecode \/ SendGetImage \/ SendWaitForImage
    \/ SendOnMsg \/ SendExit \/ DropPort

Spec == Init /\ [][Next]_vars


(* ---------------------------------------------------------------------- *)
(* Clients that respect the order of the API: Prefetch(u) is posted       *)
(* before Decode(u), Decode(u) before GetImage(u) and WaitForImage(u)     *)
(* (the comments on Msg), and one Exit is posted (run asserts that no     *)
(* Exit is pending when one arrives).  The tasks are scheduled fairly:    *)
(* the cache loops on port.recv(), a prefetcher sends its Load, the       *)
(* resource task ends every load with Done, a decoder returns.            *)
(* ---------------------------------------------------------------------- *)
ApiOrder(m) ==
    /\ m.type = "Decode" => <<"Prefetch", m.url>> \in sent
    /\ m.type \in {"GetImage", "WaitForImage"} => <<"Decode", m.url>> \in sent
    /\ m.type = "Exit" => <<"Exit", NoUrl>> \notin sent

ApiSend(m, newchans) == ApiOrder(m) /\ ClientSend(m, newchans)

ApiPrefetch == \E u \in Urls : ApiSend(Prefetch(u), <<>>)
ApiDecode == \E u \in Urls : ApiSend(Decode(u), <<>>)
ApiGetImage ==
    \E u \in Urls :
        ApiSend(GetImage(u, Len(chans) + 1), <<NewChan("GetImage", u)>>)
ApiWaitForImage ==
    \E u \in Urls :
        ApiSend(WaitForImage(u, Len(chans) + 1),
                <<NewChan("WaitForImage", u)>>)
ApiOnMsg == \E h \in Handlers : ApiSend(OnMsg(h), <<>>)
ApiExit == ApiSend(Exit(Len(chans) + 1), <<NewChan("Exit", NoUrl)>>)

NextApi ==
    \/ RecvPrefetch \/ RecvStorePrefetchedImageData \/ RecvDecode
    \/ RecvStoreImage \/ RecvGetImage \/ RecvWaitForImage \/ RecvOnMsg
    \/ RecvExit
    \/ PrefetcherStart \/ ResourcePayload \/ ResourceDone \/ DecoderStep
    \/ ApiPrefetch \/ ApiDecode \/ ApiGetImage \/ ApiWaitForImage
    \/ ApiOnMsg \/ ApiExit \/ DropPort

Fairness ==
    /\ WF_vars(CacheStep)
    /\ WF_vars(PrefetcherStart)
    /\ WF_vars(ResourceDone)
    /\ WF_vars(DecoderStep)

SpecApi == Init /\ [][NextApi]_vars /\ Fairness

(* ---------------------------------------------------------------------- *)
(* The prefetchers alone against the resource task: the cache has         *)
(* processed one Prefetch for each of some URLs and now waits in          *)
(* port.recv(); the resource task answers each Load with any frames       *)
(* ended by a Done.                                                       *)
(* ---------------------------------------------------------------------- *)
\* the orders in which the Prefetch of distinct URLs can have arrived
PrefetchOrders ==
    {o \in UNION {[1..n -> Urls] : n \in 1..NumUrls} :
        \A i, j \in 1..Len(o) : i # j => o[i] # o[j]}

InitLoad ==
    \E o \in PrefetchOrders :
        /\ port = <<>>
        /\ msg = Prefetch(o[Len(o)])
        /\ state_map = [u \in {o[i] : i \in 1..Len(o)} |->
                           Prefetching("DoNotDecode")]
        /\ wait_map = <<>>
        /\ need_exit = <<>>
        /\ msg_handlers = <<>>
        /\ signals = {}
        /\ task = "running"
        /\ chans = <<>>
        /\ prefetchers = [i \in 1..Len(o) |-> PrefetcherTask(o[i])]
        /\ decoders = <<>>
        /\ loads = [u \in Urls |-> 0]
        /\ sent = {<<"Prefetch", o[i]>> : i \in 1..Len(o)}
        /\ nsent = Len(o)
        /\ sync_port = <<>>
        /\ sync_task = "none"
        /\ calls = <<>>

LoadPayload == \E i \in 1..Len(prefetchers), d \in LoadFrames :
                   /\ Len(prefetchers[i].progress) < MaxLoadFrames
                   /\ PrefetcherRecv(i, Payload(d))

NextLoad == PrefetcherStart \/ LoadPayload \/ ResourceDone

SpecLoad == InitLoad /\ [][NextLoad]_vars

(* ---------------------------------------------------------------------- *)
(* SyncImageCacheTask: a task that owns a child cache (inner_cache) and   *)
(* forwards to it what it receives on its own port.  The clients hold the *)
(* SharedChan of the wrapper; only the wrapper and the workers of the     *)
(* child hold the channel of the child.                                   *)
(* ---------------------------------------------------------------------- *)
\* a wrapper that forwards GetImage as it is
sync_dispatch_no_rewrite(m) ==
    CASE m.type = "Exit" -> [send |-> Exit(m.chan), break |-> TRUE]
      [] OTHER -> [send |-> m, break |-> FALSE]

\* a wrapper that goes on looping after it forwarded the Exit
sync_dispatch_no_break(m) ==
    CASE m.type = "GetImage" ->
             [send |-> WaitForImage(m.url, m.chan), break |-> FALSE]
      [] m.type = "Exit" -> [send |-> Exit(m.chan), break |-> FALSE]
      [] OTHER -> [send |-> m, break |-> FALSE]

\* the match of the wrapper's loop on the message m: what it sends to
\* inner_cache, and whether it leaves the loop
sync_dispatch(m) ==
    CASE m.type = "GetImage" ->
             [send |-> WaitForImage(m.url, m.chan), break |-> FALSE]
      [] m.type = "Exit" -> [send |-> Exit(m.chan), break |-> TRUE]
      [] OTHER -> [send |-> m, break |-> FALSE]

\* one iteration of the wrapper's loop; leaving the loop ends the task and
\* drops its port with what is still queued
SyncRun ==
    /\ sync_task = "running"
    /\ sync_port # <<>>
    /\ LET r == sync_dispatch(Head(sync_port))
       IN /\ port' = Append(port, r.send)
          /\ sync_port' = IF r.break THEN <<>> ELSE Tail(sync_port)
          /\ sync_task' = IF r.break THEN "done" ELSE "running"
    /\ UNCHANGED <<msg, state_map, wait_map, need_exit, msg_handlers, signals,
                   task, chans, prefetchers, decoders, loads, sent, nsent,
                   calls>>

\* a client posts m on the SharedChan of the wrapper, in the order of the
\* API; what is sent once the wrapper's port is dropped is lost
SyncSend(m, newchans) ==
    /\ ApiOrder(m)
    /\ sync_task # "none"
    /\ nsent < MaxClientMsgs
    /\ nsent' = nsent + 1
    /\ sync_port' = IF sync_task = "running" THEN Append(sync_port, m)
                    ELSE sync_port
    /\ chans' = chans \o newchans
    /\ sent' = sent \cup {<<m.type, m.url>>}
    /\ UNCHANGED <<port, msg, state_map, wait_map, need_exit, msg_handlers,
                   signals, task, prefetchers, decoders, loads, sync_task,
                   calls>>

SyncPrefetch == \E u \in Urls : SyncSend(Prefetch(u), <<>>)
SyncDecode == \E u \in Urls : SyncSend(Decode(u), <<>>)
SyncGetImage ==
    \E u \in Urls :
        SyncSend(GetImage(u, Len(chans) + 1), <<NewChan("GetImage", u)>>)
SyncWaitForImage ==
    \E u \in Urls :
        SyncSend(WaitForImage(u, Len(chans) + 1),
                 <<NewChan("WaitForImage", u)>>)
SyncOnMsg == \E h \in Handlers : SyncSend(OnMsg(h), <<>>)
SyncExit == SyncSend(Exit(Len(chans) + 1), <<NewChan("Exit", NoUrl)>>)

\* SyncImageCacheTask(resource_task): the wrapper and its child cache
InitSync ==
    /\ InitCache
    /\ sync_port = <<>>
    /\ sync_task = "running"
    /\ calls = <<>>

NextSync ==
    \/ RecvPrefetch \/ RecvStorePrefetchedImageData \/ RecvDecode
    \/ RecvStoreImage \/ RecvGetImage \/ RecvWaitForImage \/ RecvOnMsg
    \/ RecvExit
    \/ PrefetcherStart \/ ResourcePayload \/ ResourceDone \/ DecoderStep
    \/ SyncRun
    \/ SyncPrefetch \/ SyncDecode \/ SyncGetImage \/ SyncWaitForImage
    \/ SyncOnMsg \/ SyncExit \/ DropPort

SpecSync == InitSync /\ [][NextSync]_vars

(* ---------------------------------------------------------------------- *)
(* Properties                                                             *)
(* ---------------------------------------------------------------------- *)
TagOf(u) == IF u \in DOMAIN state_map THEN state_map[u].tag ELSE "Init"
NextOf(u) == IF u \in DOMAIN state_map THEN state_map[u].next ELSE ""
Chans == 1..Len(chans)
\* the request that carries reply channel c has been taken out of the inbox
Received(c) == \A i \in 1..Len(port) : port[i].chan # c
PrefetchersOf(u) == {i \in 1..Len(prefetchers) : prefetchers[i].url = u}
DecodersOf(u) == {i \in 1..Len(decoders) : decoders[i].url = u}
\* the step is an iteration of run: it takes a message out of the inbox
IsRecv == Len(port') < Len(port)

\* C1: for every URL, whatever the clients send (Prefetch repeated before,
\* during or after the fetch, after a failed fetch or after the decode), the
\* resource task receives at most one Load, and at most one prefetcher is
\* ever spawned.
C1_AtMostOneLoad ==
    \A u \in Urls : loads[u] <= 1 /\ Cardinality(PrefetchersOf(u)) <= 1

\* a Prefetch(u) was processed after the fetch of u had failed, and u was
\* loaded once
C1_Witness ==
    \E u \in Urls :
        /\ msg = Prefetch(u)
        /\ TagOf(u) = "Failed"
        /\ loads[u] = 1

\* C2: for every URL at most one decoder task is ever spawned, whatever the
\* number of Decode messages and whether they come before or after the bytes.
C2_AtMostOneDecoder ==
    \A u \in Urls : Cardinality(DecodersOf(u)) <= 1

\* a Decode(u) was processed after u was decoded: the decoder ran once
C2_Witness ==
    \E u \in Urls :
        /\ msg = Decode(u)
        /\ TagOf(u) = "Decoded"
        /\ Cardinality(DecodersOf(u)) = 1
        /\ \A i \in DecodersOf(u) : decoders[i].pc = "done"


IsRequest(c) == chans[c].kind \in {"GetImage", "WaitForImage"}
Enrolled(c) ==
    \E u \in DOMAIN wait_map : \E i \in 1..Len(wait_map[u]) : wait_map[u][i] = c

\* C3 as stated: every reply channel passed in a GetImage or WaitForImage
\* that the cache received holds exactly one response, unless its receiver
\* was closed; read at the point where the cache task has stopped and can
\* send nothing more.
C3_Original ==
    task # "running" =>
        \A c \in Chans :
            (IsRequest(c) /\ Received(c) /\ ~chans[c].closed)
                => Len(chans[c].resp) = 1

\* C3 amended: a reply channel of GetImage or WaitForImage never holds two
\* responses, and holds none when its receiver was closed; once the cache
\* has taken its request without failing, it holds exactly one or is
\* enrolled as a waiter (and then holds none yet); when the cache has exited
\* normally it holds exactly one.  Only an abnormal termination of the
\* actor leaves a received request unanswered.
C3_ExactlyOneUnlessFatal ==
    \A c \in Chans :
        IsRequest(c) =>
            /\ Len(chans[c].resp) <= 1
            /\ chans[c].closed => chans[c].resp = <<>>
            /\ Enrolled(c) => chans[c].resp = <<>>
            /\ (Received(c) /\ ~chans[c].closed /\ task # "failed")
                   => (Len(chans[c].resp) = 1 \/ Enrolled(c))
            /\ (Received(c) /\ ~chans[c].closed /\ task = "exited")
                   => Len(chans[c].resp) = 1

\* a waiter was enrolled and got its single response from the StoreImage
\* processed last, while a GetImage channel holds its single answer too
C3_Witness ==
    \E c, d \in Chans :
        /\ chans[c].kind = "WaitForImage"
        /\ chans[d].kind = "GetImage"
        /\ chans[c].url = chans[d].url
        /\ msg.type = "StoreImage"
        /\ msg.url = chans[c].url
        /\ chans[d].resp = <<ImageNotReady>>
        /\ Len(chans[c].resp) = 1
        /\ chans[c].resp[1][1] = "ImageReady"


Acked == \E c \in Chans : chans[c].kind = "Exit" /\ chans[c].resp # <<>>

\* no URL is in Prefetching or Decoding
Quiescent == \A u \in Urls : TagOf(u) \notin {"Prefetching", "Decoding"}

\* C4: an Exit is acknowledged only in a state where no URL is Prefetching
\* or Decoding, and the cache stops exactly then; while an Exit is pending
\* its channel holds nothing, some URL is still Prefetching or Decoding and
\* the cache has not exited.  Holding between any two iterations of the
\* loop, this is the test being made again after every message.
C4_ExitOnlyWhenQuiescent ==
    /\ \A c \in Chans :
          (chans[c].kind = "Exit" /\ chans[c].resp # <<>>)
              => /\ chans[c].resp = <<Ack>>
                 /\ task = "exited"
                 /\ Quiescent
    /\ need_exit # <<>>
          => /\ ~Quiescent
             /\ task # "exited"
             /\ chans[need_exit[1]].resp = <<>>
    /\ task = "exited" => Acked

\* the Exit was kept pending while a decoder ran, and acknowledged in the
\* iteration that processed the decoder's StoreImage
C4_Witness ==
    /\ task = "exited"
    /\ Acked
    /\ msg.type = "StoreImage"
    /\ TagOf(msg.url) \in {"Decoded", "Failed"}

\* C5: from the moment the acknowledgement of Exit is sent, the cache takes
\* no message out of its inbox and nothing it owns or drives changes: no
\* state, no waiter, no observer or signal, no response on any channel, no
\* task spawned; only clients still act.
C5_NothingAfterAck ==
    [][Acked =>
          /\ UNCHANGED <<msg, state_map, wait_map, need_exit, msg_handlers,
                         signals, task, prefetchers, decoders, loads>>
          /\ Len(port') >= Len(port)
          /\ SubSeq(port', 1, Len(port)) = port
          /\ \A c \in Chans : chans'[c].resp = chans[c].resp]_vars

\* the acknowledgement was sent and messages sit in the inbox, unprocessed
C5_Witness ==
    /\ Acked
    /\ task = "exited"
    /\ Len(port) >= 2


ExitSent == \E c \in Chans : chans[c].kind = "Exit"

\* C6: with clients that respect the order of the API and tasks that all
\* run to their report, an Exit that was sent is eventually acknowledged;
\* and when the Exit is received with an empty state map, the
\* acknowledgement is sent in that same iteration of the loop.
C6_ExitEventuallyAcked ==
    /\ ExitSent ~> Acked
    /\ [](( msg.type = "Exit" /\ state_map = <<>> )
             => (task = "exited" /\ chans[msg.chan].resp = <<Ack>>))

\* an Exit received while a prefetcher was at work was acknowledged when
\* the bytes were stored
C6_Witness ==
    /\ Acked
    /\ msg.type = "StorePrefetchedImageData"
    /\ TagOf(msg.url) = "Prefetched"
    /\ \E i \in PrefetchersOf(msg.url) : prefetchers[i].pc = "done"


\* what response.send(x) leaves on reply channel c that held nothing
Delivered(c, x) == IF chans[c].closed THEN <<>> ELSE <<x>>
\* the cache keeps its hands off: no state, no response, no task spawned
CacheUntouched ==
    /\ UNCHANGED <<state_map, wait_map, need_exit, msg_handlers>>
    /\ \A c \in Chans : chans'[c].resp = chans[c].resp
    /\ Len(prefetchers') = Len(prefetchers)
    /\ Len(decoders') = Len(decoders)

\* C7: a Decode, GetImage or WaitForImage processed for a URL that has no
\* entry in the state map makes the cache task fail: no response is sent,
\* no state changes; and a failed cache task takes no further message.
C7_UnprefetchedIsFatal ==
    [][/\ ( /\ IsRecv
            /\ Head(port).type \in {"Decode", "GetImage", "WaitForImage"}
            /\ Head(port).url \notin DOMAIN state_map )
          => (task' = "failed" /\ CacheUntouched)
       /\ task = "failed"
          => /\ task' = "failed"
             /\ msg' = msg
             /\ signals' = signals
             /\ Len(port') >= Len(port)
             /\ CacheUntouched]_vars

\* the cache failed on a WaitForImage for an unprefetched URL: its channel
\* holds nothing and a later message sits in the inbox
C7_Witness ==
    /\ task = "failed"
    /\ msg.type = "WaitForImage"
    /\ msg.url \notin DOMAIN state_map
    /\ chans[msg.chan].resp = <<>>
    /\ port # <<>>

BeforeDecode(u) ==
    \/ TagOf(u) = "Prefetched"
    \/ TagOf(u) = "Prefetching" /\ NextOf(u) = "DoNotDecode"

\* C8 as stated: when the message processed last is a GetImage or
\* WaitForImage for a prefetched URL whose Decode was never even sent, the
\* cache task has failed and the channel holds no response.
C8_Original ==
    ( /\ msg.type \in {"GetImage", "WaitForImage"}
      /\ msg.url \in DOMAIN state_map
      /\ <<"Decode", msg.url>> \notin sent )
    => (task = "failed" /\ chans[msg.chan].resp = <<>>)

\* C8 amended: a GetImage or WaitForImage processed while the state of its
\* URL is Prefetching(DoNotDecode) or Prefetched (the fetch is running or
\* has succeeded, and no Decode was processed) makes the cache task fail
\* and leaves the channel without response; when no Decode was sent and the
\* fetch has already failed, the state is Failed, the task does not fail
\* and the channel is answered ImageFailed.
C8_BeforeDecodeIsFatalUnlessFailed ==
    msg.type \in {"GetImage", "WaitForImage"} =>
        /\ BeforeDecode(msg.url)
              => (task = "failed" /\ chans[msg.chan].resp = <<>>)
        /\ ( /\ msg.url \in DOMAIN state_map
             /\ <<"Decode", msg.url>> \notin sent
             /\ ~BeforeDecode(msg.url) )
              => /\ TagOf(msg.url) = "Failed"
                 /\ task # "failed"
                 /\ chans[msg.chan].resp = Delivered(msg.chan, ImageFailed)

\* the cache failed on a GetImage for a URL whose bytes had arrived and
\* whose Decode was never sent
C8_Witness ==
    /\ task = "failed"
    /\ msg.type = "GetImage"
    /\ TagOf(msg.url) = "Prefetched"
    /\ <<"Decode", msg.url>> \notin sent
    /\ chans[msg.chan].resp = <<>>

NotSettled(u) ==
    \/ TagOf(u) = "Decoding"
    \/ TagOf(u) = "Prefetching" /\ NextOf(u) = "DoDecode"

\* C9: a GetImage processed in Prefetching(DoDecode) or Decoding sends
\* ImageNotReady on its channel in that step and changes neither the wait
\* map nor the state map; a GetImage channel is never enrolled as a waiter,
\* and one that was answered ImageNotReady holds that single response for
\* good, also after its URL has settled.
C9_NotReadyAndNotEnrolled ==
    /\ [][( /\ IsRecv
            /\ Head(port).type = "GetImage"
            /\ NotSettled(Head(port).url) )
          => /\ chans'[Head(port).chan].resp
                    = Delivered(Head(port).chan, ImageNotReady)
             /\ UNCHANGED <<wait_map, state_map>>]_vars
    /\ [](\A c \in Chans :
             chans[c].kind = "GetImage" =>
                 /\ ~Enrolled(c)
                 /\ (chans[c].resp # <<>> /\ chans[c].resp[1] = ImageNotReady)
                        => Len(chans[c].resp) = 1)

\* a GetImage was answered ImageNotReady, then its URL was decoded by the
\* StoreImage processed last, and the channel still holds that one answer
C9_Witness ==
    \E c \in Chans :
        /\ chans[c].kind = "GetImage"
        /\ chans[c].resp = <<ImageNotReady>>
        /\ msg.type = "StoreImage"
        /\ msg.url = chans[c].url
        /\ TagOf(msg.url) = "Decoded"

\* the observer had signalled StoreImage(u, Some(_)) to the client before it
\* created reply channel c
SentAfterStore(c) == <<"StoreImage", chans[c].url, "Some">> \in chans[c].seen

WaitersOf(u) == IF u \in DOMAIN wait_map THEN wait_map[u] ELSE <<>>
WaiterSet(u) == {WaitersOf(u)[i] : i \in 1..Len(WaitersOf(u))}

\* C11: a StorePrefetchedImageData(u, Err) processed in Prefetching(DoDecode)
\* or Prefetching(DoNotDecode) leaves state(u) = Failed, sends ImageFailed to
\* every waiter enrolled for u, removes the wait-map entry of u, and spawns
\* no decoder.
C11_FetchErrorFailsAndPurges ==
    [][( /\ IsRecv
         /\ Head(port).type = "StorePrefetchedImageData"
         /\ Head(port).result = Err
         /\ TagOf(Head(port).url) = "Prefetching" )
       => /\ task' # "failed"
          /\ state_map'[Head(port).url] = Failed
          /\ \A c \in WaiterSet(Head(port).url) :
                 chans'[c].resp = Delivered(c, ImageFailed)
          /\ Head(port).url \notin DOMAIN wait_map'
          /\ decoders' = decoders]_vars

\* the failed fetch of u was stored last: the waiter of u holds ImageFailed,
\* nobody is enrolled any more and no decoder exists
C11_Witness ==
    \E c \in Chans :
        /\ chans[c].kind = "WaitForImage"
        /\ msg = StorePrefetchedImageData(chans[c].url, Err)
        /\ chans[c].resp = <<ImageFailed>>
        /\ TagOf(chans[c].url) = "Failed"
        /\ wait_map = <<>>
        /\ decoders = <<>>

\* C12: a StoreImage(u, None) processed in Decoding leaves state(u) = Failed,
\* sends ImageFailed to every waiter enrolled for u and removes the entry of
\* u; a GetImage(u, r) processed in Failed is answered ImageFailed.
C12_DecodeErrorFailsAndPurges ==
    [][/\ ( /\ IsRecv
            /\ Head(port).type = "StoreImage"
            /\ Head(port).result = None
            /\ TagOf(Head(port).url) = "Decoding" )
          => /\ task' # "failed"
             /\ state_map'[Head(port).url] = Failed
             /\ \A c \in WaiterSet(Head(port).url) :
                    chans'[c].resp = Delivered(c, ImageFailed)
             /\ Head(port).url \notin DOMAIN wait_map'
       /\ ( /\ IsRecv
            /\ Head(port).type = "GetImage"
            /\ TagOf(Head(port).url) = "Failed" )
          => chans'[Head(port).chan].resp
                 = Delivered(Head(port).chan, ImageFailed)]_vars

\* the decoder of u rejected the bytes; a waiter of u was told ImageFailed
\* and the GetImage processed last was answered ImageFailed
C12_Witness ==
    \E c, d \in Chans :
        /\ chans[c].kind = "WaitForImage"
        /\ msg = GetImage(chans[c].url, d)
        /\ chans[c].resp = <<ImageFailed>>
        /\ chans[d].resp = <<ImageFailed>>
        /\ \E i \in DecodersOf(msg.url) : decoders[i].pc = "done"

\* C13: once state(u) is Failed it stays Failed; no step spawns a prefetcher
\* or a decoder for u or sends a Load for u; every GetImage(u, r) and
\* WaitForImage(u, r) processed from then on is answered ImageFailed in its
\* step and enrols nobody.
C13_FailedIsPermanent ==
    [][\A u \in Urls :
          TagOf(u) = "Failed" =>
              /\ u \in DOMAIN state_map' /\ state_map'[u] = Failed
              /\ loads'[u] = loads[u]
              /\ {i \in 1..Len(prefetchers') : prefetchers'[i].url = u}
                     = PrefetchersOf(u)
              /\ {i \in 1..Len(decoders') : decoders'[i].url = u}
                     = DecodersOf(u)
              /\ ( /\ IsRecv
                   /\ Head(port).type \in {"GetImage", "WaitForImage"}
                   /\ Head(port).url = u )
                 => /\ chans'[Head(port).chan].resp
                           = Delivered(Head(port).chan, ImageFailed)
                    /\ wait_map' = wait_map]_vars

\* after the fetch of u failed, a GetImage and then a WaitForImage for u
\* were both answered ImageFailed, and u was loaded once
C13_Witness ==
    \E c, d \in Chans :
        /\ chans[c].kind = "GetImage"
        /\ msg = WaitForImage(chans[c].url, d)
        /\ chans[c].resp = <<ImageFailed>>
        /\ chans[d].resp = <<ImageFailed>>
        /\ loads[msg.url] = 1
        /\ DecodersOf(msg.url) = {}

\* C14: a WaitForImage(u, r) processed in Prefetching(DoDecode) or Decoding
\* sends nothing and appends r to the waiters of u.  A WaitForImage channel
\* that is enrolled holds nothing and its URL is not settled; one that holds
\* a response holds exactly one: ImageReady with the stored image and its
\* URL is Decoded, or ImageFailed and its URL is Failed; and once its URL is
\* settled, a channel whose request was taken holds its response.
C14_WaiterAnsweredOnSettlement ==
    /\ [][( /\ IsRecv
            /\ Head(port).type = "WaitForImage"
            /\ NotSettled(Head(port).url) )
          => /\ chans'[Head(port).chan].resp = <<>>
             /\ wait_map' = MapInsert(wait_map, Head(port).url,
                                Append(WaitersOf(Head(port).url),
                                       Head(port).chan))
             /\ state_map' = state_map]_vars
    /\ [](\A c \in Chans :
             chans[c].kind = "WaitForImage" =>
                 /\ Enrolled(c)
                       => /\ chans[c].resp = <<>>
                          /\ NotSettled(chans[c].url)
                          /\ c \in WaiterSet(chans[c].url)
                 /\ chans[c].resp # <<>>
                       => \/ /\ TagOf(chans[c].url) = "Decoded"
                             /\ chans[c].resp
                                  = <<ImageReady(state_map[chans[c].url].image)>>
                          \/ /\ TagOf(chans[c].url) = "Failed"
                             /\ chans[c].resp = <<ImageFailed>>
                 /\ ( /\ Received(c)
                      /\ ~chans[c].closed
                      /\ TagOf(chans[c].url) \in {"Decoded", "Failed"} )
                       => Len(chans[c].resp) = 1)

\* two waiters were enrolled while the decoder ran; it rejected the bytes
\* and the StoreImage processed last gave each of them ImageFailed
C14_Witness ==
    \E c, d \in Chans :
        /\ c # d
        /\ chans[c].kind = "WaitForImage"
        /\ chans[d].kind = "WaitForImage"
        /\ msg = StoreImage(chans[c].url, None)
        /\ chans[d].url = chans[c].url
        /\ chans[c].resp = <<ImageFailed>>
        /\ chans[d].resp = <<ImageFailed>>

\* C15: no reply channel passed in a WaitForImage ever holds ImageNotReady.
C15_WaitNeverNotReady ==
    \A c \in Chans :
        chans[c].kind = "WaitForImage" =>
            \A i \in 1..Len(chans[c].resp) :
                chans[c].resp[i][1] \in {"ImageReady", "ImageFailed"}

\* the only channel there is was passed in a WaitForImage while u was not
\* settled, and holds the ImageReady of the StoreImage processed last
C15_Witness ==
    /\ Len(chans) = 1
    /\ chans[1].kind = "WaitForImage"
    /\ msg.type = "StoreImage"
    /\ Len(chans[1].resp) = 1
    /\ chans[1].resp[1][1] = "ImageReady"

\* C16: a WaitForImage(u, r) processed when u is settled is answered in that
\* step, ImageReady with the stored image in Decoded and ImageFailed in
\* Failed, and the wait map does not change.
C16_WaitOnSettledAnswersAtOnce ==
    [][( /\ IsRecv
         /\ Head(port).type = "WaitForImage"
         /\ TagOf(Head(port).url) \in {"Decoded", "Failed"} )
       => /\ chans'[Head(port).chan].resp
                = Delivered(Head(port).chan,
                    IF TagOf(Head(port).url) = "Decoded"
                    THEN ImageReady(state_map[Head(port).url].image)
                    ELSE ImageFailed)
          /\ wait_map' = wait_map
          /\ state_map' = state_map]_vars

\* the WaitForImage processed last found u decoded and was answered
\* ImageReady; nobody is enrolled
C16_Witness ==
    /\ msg.type = "WaitForImage"
    /\ TagOf(msg.url) = "Decoded"
    /\ chans[msg.chan].resp = <<ImageReady(state_map[msg.url].image)>>
    /\ wait_map = <<>>


Settled(tag) == tag \in {"Decoded", "Failed"}

\* C19: in the step that settles u (state(u) becomes Decoded or Failed),
\* every waiter enrolled for u gets its response, ImageReady with the stored
\* image or ImageFailed, and the entry of u is removed; so between two
\* iterations of the loop no settled URL has a waiter left, and when the
\* Exit is acknowledged nobody is enrolled.
C19_WaitersAnsweredInSettlingStep ==
    /\ [][\A u \in Urls :
             ( /\ ~Settled(TagOf(u))
               /\ u \in DOMAIN state_map'
               /\ Settled(state_map'[u].tag) )
             => /\ IsRecv
                /\ Head(port).url = u
                /\ \A c \in WaiterSet(u) :
                       chans'[c].resp =
                           Delivered(c,
                               IF state_map'[u].tag = "Decoded"
                               THEN ImageReady(state_map'[u].image)
                               ELSE ImageFailed)
                /\ u \notin DOMAIN wait_map']_vars
    /\ [](/\ \A u \in Urls : Settled(TagOf(u)) => u \notin DOMAIN wait_map
          /\ Acked => wait_map = <<>>)

\* two waiters of u and a pending Exit: the StoreImage processed last
\* answered both waiters and the Exit was acknowledged in that iteration
C19_Witness ==
    \E c, d \in Chans :
        /\ c # d
        /\ chans[c].kind = "WaitForImage"
        /\ chans[d].kind = "Exit"
        /\ msg.type = "StoreImage"
        /\ msg.url = chans[c].url
        /\ Len(chans[c].resp) = 1
        /\ chans[d].resp = <<Ack>>

\* C20: between two iterations of the loop, a URL has an entry in the wait
\* map only if its state is Prefetching(DoDecode) or Decoding, and the entry
\* lists at least one waiter.
C20_WaitMapOnlyForUnsettled ==
    \A u \in DOMAIN wait_map :
        /\ u \in Urls
        /\ NotSettled(u)
        /\ wait_map[u] # <<>>

\* a URL that is being decoded has two waiters enrolled, and the other URL,
\* which nobody waits for, has no entry
C20_Witness ==
    \E u \in Urls :
        /\ DOMAIN wait_map = {u}
        /\ TagOf(u) = "Decoding"
        /\ Len(wait_map[u]) = 2
        /\ \A i \in 1..2 : chans[wait_map[u][i]].resp = <<>>


(* ---------------------------------------------------------------------- *)
(* The synchronous wrapper (specification SpecSync)                       *)
(* ---------------------------------------------------------------------- *)
\* the response a settled URL answers with
SettledResponse(st) ==
    IF st.tag = "Decoded" THEN ImageReady(st.image) ELSE ImageFailed

\* the reply channels the clients passed in a GetImage
GetChans == {c \in Chans : chans[c].kind = "GetImage"}

\* C17: a client of the synchronous wrapper that sends Prefetch(u),
\* Decode(u), GetImage(u, r) never receives ImageNotReady on r.  When the
\* child cache receives the request while u is being fetched or decoded it
\* sends nothing and enrols r; when u is settled, then or later, r receives
\* in that step ImageReady with the stored image if u is Decoded and
\* ImageFailed if u is Failed, and that is the only response r ever holds.
C17_SyncGetImageNeverNotReady ==
    /\ [][\A c \in GetChans :
            LET u == chans[c].url IN
            /\ ( /\ IsRecv
                 /\ Head(port).chan = c
                 /\ Head(port).type \in {"GetImage", "WaitForImage"} )
               => /\ task' # "failed"
                  /\ IF Settled(TagOf(u))
                     THEN chans'[c].resp =
                              Delivered(c, SettledResponse(state_map[u]))
                     ELSE /\ chans'[c].resp = <<>>
                          /\ c \in {wait_map'[u][i] :
                                       i \in 1..Len(wait_map'[u])}
            /\ ( /\ c \in WaiterSet(u)
                 /\ u \in DOMAIN state_map'
                 /\ Settled(state_map'[u].tag) )
               => chans'[c].resp =
                      Delivered(c, SettledResponse(state_map'[u]))]_vars
    /\ [](\A c \in GetChans :
            /\ Len(chans[c].resp) <= 1
            /\ chans[c].resp # <<>> =>
                  /\ Settled(TagOf(chans[c].url))
                  /\ chans[c].resp[1] =
                         SettledResponse(state_map[chans[c].url]))

\* the client sent Prefetch(u), Decode(u), GetImage(u, r) through the
\* wrapper, the request reached the child before the image was stored, and
\* the StoreImage processed last answered r with ImageReady
C17_Witness ==
    \E c \in GetChans :
        /\ sync_task = "running"
        /\ msg.type = "StoreImage"
        /\ msg.url = chans[c].url
        /\ <<"Prefetch", chans[c].url>> \in sent
        /\ <<"Decode", chans[c].url>> \in sent
        /\ chans[c].resp = <<ImageReady(Image(<<1>>))>>

C21_SettledIsTerminal ==
    [][/\ \A u \in DOMAIN state_map :
             /\ u \in DOMAIN state_map'
             /\ Settled(state_map[u].tag) => state_map'[u] = state_map[u]
       /\ DOMAIN state_map \subseteq DOMAIN state_map']_vars

\* u is Decoded and the cache has since processed the report of the
\* prefetcher of another URL
C21_Witness ==
    \E u, v \in Urls :
        /\ u # v
        /\ TagOf(u) = "Decoded"
        /\ msg.type = "StorePrefetchedImageData"
        /\ msg.url = v
        /\ TagOf(v) \in {"Prefetched", "Failed"}

\* C22: when the clients send Prefetch(u), Decode(u), GetImage(u, r) in that
\* order, the cache applies them in that order: it receives the GetImage
\* with u in Prefetching(DoDecode), Decoding, Decoded or Failed, never in a
\* fatal state, and r receives ImageNotReady exactly when u is not yet
\* settled, ImageReady with the stored image when u is Decoded and
\* ImageFailed when u is Failed.
C22_GetImageInSubmissionOrder ==
    [][( /\ IsRecv
         /\ Head(port).type = "GetImage" )
       => LET u == Head(port).url
              c == Head(port).chan
          IN /\ task' # "failed"
             /\ \/ TagOf(u) = "Prefetching" /\ NextOf(u) = "DoDecode"
                \/ TagOf(u) \in {"Decoding", "Decoded", "Failed"}
             /\ state_map' = state_map
             /\ chans'[c].resp =
                    Delivered(c, IF Settled(TagOf(u))
                                 THEN SettledResponse(state_map[u])
                                 ELSE ImageNotReady)]_vars

\* the GetImage processed last found the decoder of u still running and
\* answered ImageNotReady
C22_Witness ==
    \E c \in GetChans :
        /\ msg.type = "GetImage"
        /\ msg.chan = c
        /\ TagOf(chans[c].url) = "Decoding"
        /\ \E i \in DecodersOf(chans[c].url) : decoders[i].pc = "start"
        /\ chans[c].resp = <<ImageNotReady>>


\* C23: an Exit processed while an earlier Exit is pending makes the cache
\* task fail its assertion: neither Exit channel is acknowledged in that
\* step, and a failed task stays failed and sends nothing on any channel.
C23_SecondExitIsFatal ==
    /\ [][( /\ IsRecv
            /\ Head(port).type = "Exit"
            /\ need_exit # <<>> )
          => /\ task' = "failed"
             /\ chans'[need_exit[1]].resp = <<>>
             /\ chans'[Head(port).chan].resp = <<>>]_vars
    /\ [][task = "failed"
          => /\ task' = "failed"
             /\ \A c \in Chans : chans'[c].resp = chans[c].resp]_vars

\* a second Exit arrived while the first waited for a fetch: the task has
\* failed and both Exit channels are empty
C23_Witness ==
    \E c, d \in Chans :
        /\ c # d
        /\ task = "failed"
        /\ msg.type = "Exit"
        /\ msg.chan = d
        /\ need_exit = <<c>>
        /\ chans[c].resp = <<>>
        /\ chans[d].resp = <<>>
        /\ \E u \in Urls : TagOf(u) = "Prefetching"

(* ---------------------------------------------------------------------- *)
(* The prefetched buffer and the decode request                           *)
(* ---------------------------------------------------------------------- *)
\* C24: StorePrefetchedImageData(u, Ok(buffer)) processed in
\* Prefetching(DoNotDecode) yields Prefetched(buffer) and spawns no decoder;
\* processed in Prefetching(DoDecode) it spawns exactly one decoder on that
\* buffer and leaves state(u) = Decoding at the end of that same step.
C24_StoreOkPrefetchedOrDecoding ==
    [][( /\ IsRecv
         /\ Head(port).type = "StorePrefetchedImageData"
         /\ Head(port).result[1] = "Ok"
         /\ TagOf(Head(port).url) = "Prefetching" )
       => LET u == Head(port).url
              buffer == Head(port).result[2]
          IN /\ task' # "failed"
             /\ wait_map' = wait_map
             /\ IF NextOf(u) = "DoNotDecode"
                THEN /\ state_map'[u] = Prefetched(<<buffer>>)
                     /\ decoders' = decoders
                ELSE /\ state_map'[u] = Decoding
                     /\ decoders' = Append(decoders, DecoderTask(u, buffer))]_vars

\* the report processed last found u in Prefetching(DoDecode) and left it
\* Decoding with its decoder spawned, and an earlier report left another
\* URL, for which no Decode was sent, Prefetched
C24_Witness ==
    \E u, v \in Urls :
        /\ u # v
        /\ msg.type = "StorePrefetchedImageData"
        /\ msg.url = u
        /\ msg.result[1] = "Ok"
        /\ TagOf(u) = "Decoding"
        /\ \E i \in DecodersOf(u) : decoders[i].data = msg.result[2]
        /\ TagOf(v) = "Prefetched"
        /\ DecodersOf(v) = {}
        /\ <<"Decode", v>> \notin sent

\* the states a URL is in once a Decode for it has been processed
DecodeRequested(u) ==
    \/ TagOf(u) = "Prefetching" /\ NextOf(u) = "DoDecode"
    \/ TagOf(u) \in {"Decoding", "Decoded", "Failed"}

\* C25: Decode is idempotent per URL.  A Decode(u) the cache survives
\* leaves u in Prefetching(DoDecode), Decoding, Decoded or Failed; u never
\* leaves these states again; and a Decode(u) processed in one of them
\* changes neither the state map nor the wait map and spawns no decoder.
C25_DecodeIdempotent ==
    /\ [][( /\ IsRecv
            /\ Head(port).type = "Decode"
            /\ task' # "failed" )
          => /\ Head(port).url \in DOMAIN state_map'
             /\ LET st == state_map'[Head(port).url]
                IN \/ st.tag = "Prefetching" /\ st.next = "DoDecode"
                   \/ st.tag \in {"Decoding", "Decoded", "Failed"}]_vars
    /\ [][\A u \in Urls :
            DecodeRequested(u)
            => /\ u \in DOMAIN state_map'
               /\ \/ state_map'[u].tag = "Prefetching"
                     /\ state_map'[u].next = "DoDecode"
                  \/ state_map'[u].tag \in {"Decoding", "Decoded", "Failed"}]_vars
    /\ [][( /\ IsRecv
            /\ Head(port).type = "Decode"
            /\ DecodeRequested(Head(port).url) )
          => /\ task' # "failed"
             /\ state_map' = state_map
             /\ wait_map' = wait_map
             /\ decoders' = decoders
             /\ prefetchers' = prefetchers
             /\ chans' = chans]_vars

\* a Decode(u) was processed after the image of u was stored, hence after
\* the Decode that had it decoded, and u has its one decoder
C25_Witness ==
    \E u \in Urls :
        /\ msg = Decode(u)
        /\ TagOf(u) = "Decoded"
        /\ Cardinality(DecodersOf(u)) = 1
        /\ task = "running"


(* ---------------------------------------------------------------------- *)
(* Observers and shutdown                                                 *)
(* ---------------------------------------------------------------------- *)
\* C26: in every iteration of the loop each observer registered by an
\* earlier OnMsg is invoked exactly once, in registration order, while the
\* URL of the message still is in its pre-dispatch state; the message may
\* be a client message or a worker report; the observer an OnMsg registers
\* is not invoked for that OnMsg, and is registered from the next message
\* on; registered observers stay registered, in their order.
C26_ObserversOncePerMessageBeforeDispatch ==
    /\ [][IsRecv
          => /\ Len(calls') = Len(msg_handlers)
             /\ \A i \in 1..Len(msg_handlers) :
                    calls'[i] = [index |-> i, handler |-> msg_handlers[i],
                                 tag |-> TagOf(Head(port).url)]
             /\ msg_handlers' =
                    IF Head(port).type = "OnMsg" /\ task' # "failed"
                    THEN Append(msg_handlers, Head(port).handler)
                    ELSE msg_handlers]_vars
    /\ [][~IsRecv => msg_handlers' = msg_handlers]_vars

\* two observers are registered and the message processed last, the report
\* of a decoder, was shown to both, the first one first, while its URL was
\* still Decoding
C26_Witness ==
    /\ Len(msg_handlers) = 2
    /\ msg_handlers[1] # msg_handlers[2]
    /\ msg.type = "StoreImage"
    /\ TagOf(msg.url) \in {"Decoded", "Failed"}
    /\ Len(calls) = 2
    /\ \A i \in 1..2 : calls[i] = [index |-> i, handler |-> msg_handlers[i],
                                   tag |-> "Decoding"]

\* the reports of the workers that are still in the inbox
ReportsOf(u, type) ==
    {i \in 1..Len(port) : port[i].type = type /\ port[i].url = u}

\* C27: when the cache acknowledges Exit every prefetcher and every decoder
\* that was spawned has finished and its report has been processed: none is
\* still running and no report is left in the inbox.  While an Exit is
\* pending the cache goes on processing the reports.
C27_ExitAfterAllReports ==
    /\ [](Acked =>
            /\ \A i \in 1..Len(prefetchers) :
                   /\ prefetchers[i].pc = "done"
                   /\ ReportsOf(prefetchers[i].url,
                                "StorePrefetchedImageData") = {}
            /\ \A i \in 1..Len(decoders) :
                   /\ decoders[i].pc = "done"
                   /\ ReportsOf(decoders[i].url, "StoreImage") = {})
    /\ [][( /\ IsRecv
            /\ need_exit # <<>>
            /\ Head(port).type \in {"StorePrefetchedImageData", "StoreImage"} )
          => /\ task' # "failed"
             /\ state_map'[Head(port).url] # state_map[Head(port).url]]_vars

\* the Exit was received while the prefetcher of u was running; the cache
\* processed the prefetcher's report afterwards and acknowledged the Exit in
\* that iteration
C27_Witness ==
    \E c \in Chans :
        /\ chans[c].kind = "Exit"
        /\ chans[c].resp = <<Ack>>
        /\ msg.type = "StorePrefetchedImageData"
        /\ task = "exited"
        /\ \E i \in 1..Len(prefetchers) :
              /\ prefetchers[i].url = msg.url
              /\ prefetchers[i].pc = "done"


(* ---------------------------------------------------------------------- *)
(* The prefetcher (specification SpecLoad)                                *)
(* ---------------------------------------------------------------------- *)
\* the bytes of the Payload frames of a sequence of progress messages, in
\* the order of the sequence
RECURSIVE PayloadBytes(_)
PayloadBytes(ms) ==
    IF ms = <<>> THEN <<>>
    ELSE IF Head(ms)[1] = "Payload"
         THEN Head(ms)[2] \o PayloadBytes(Tail(ms))
         ELSE PayloadBytes(Tail(ms))

\* C28: a prefetcher sends exactly one Load, and exactly one
\* StorePrefetchedImageData once the resource task has sent Done: after
\* Done(ok) the report carries the bytes of all the Payload frames in the
\* order they arrived, after Done(err) the report is err and carries no
\* bytes.
C28_OneLoadOneReportConcatenated ==
    \A i \in 1..Len(prefetchers) :
        LET p == prefetchers[i]
            reports == ReportsOf(p.url, "StorePrefetchedImageData")
        IN /\ loads[p.url] = IF p.pc = "start" THEN 0 ELSE 1
           /\ Cardinality(reports) = IF p.pc = "done" THEN 1 ELSE 0
           /\ \A j \in reports :
                  port[j].result =
                      IF p.progress[Len(p.progress)] = Done(TRUE)
                      THEN Ok(PayloadBytes(p.progress))
                      ELSE Err

\* one prefetcher reported the two different frames it was sent in their
\* order of arrival, and another one, sent a frame and then Done(err),
\* reported err
C28_Witness ==
    \E i, j \in 1..Len(prefetchers) :
        /\ prefetchers[i].progress =
               <<Payload(<<2>>), Payload(<<1>>), Done(TRUE)>>
        /\ prefetchers[j].progress = <<Payload(<<1>>), Done(FALSE)>>
        /\ \E k, l \in 1..Len(port) :
              /\ port[k] = StorePrefetchedImageData(prefetchers[i].url,
                                                    Ok(<<2, 1>>))
              /\ port[l] = StorePrefetchedImageData(prefetchers[j].url, Err)


(* ---------------------------------------------------------------------- *)
(* The cell of Prefetched, and the states the reports arrive in           *)
(* ---------------------------------------------------------------------- *)
\* C29: the prefetched bytes of a URL are taken exactly once.  The cell of
\* a Prefetched state is never empty, so the assertion of decode holds
\* whenever a Decode finds the URL Prefetched; that Decode hands the bytes
\* to the one decoder of the URL and leaves the state Decoding; a URL that
\* is not yet Decoding has no decoder and one that is Decoding or Decoded
\* has exactly one.
C29_CellTakenOnce ==
    /\ [](\A u \in Urls :
            /\ TagOf(u) = "Prefetched" => state_map[u].cell # <<>>
            /\ TagOf(u) \in {"Init", "Prefetching", "Prefetched"}
                   => DecodersOf(u) = {}
            /\ TagOf(u) \in {"Decoding", "Decoded"}
                   => Cardinality(DecodersOf(u)) = 1
            /\ Cardinality(DecodersOf(u)) <= 1)
    /\ [][( /\ IsRecv
            /\ Head(port).type = "Decode"
            /\ TagOf(Head(port).url) = "Prefetched" )
          => LET u == Head(port).url IN
             /\ task' # "failed"
             /\ state_map'[u] = Decoding
             /\ decoders' =
                    Append(decoders, DecoderTask(u, state_map[u].cell[1]))]_vars

\* the clients sent one Prefetch and one Decode; the Decode, processed
\* last, found the bytes in the cell and handed them to the decoder
C29_Witness ==
    \E u \in Urls :
        /\ nsent = 2
        /\ sent = {<<"Prefetch", u>>, <<"Decode", u>>}
        /\ msg = Decode(u)
        /\ TagOf(u) = "Decoding"
        /\ \E i \in DecodersOf(u) : decoders[i].data = <<1>>

\* C30: when the clients send only public messages and OnMsg, a worker
\* report is always processed in the state it expects: while a
\* StorePrefetchedImageData(u, _) is in the inbox u is Prefetching, while a
\* StoreImage(u, _) is in the inbox u is Decoding, there is at most one
\* report for u in the inbox, and processing a report never fails the task.
C30_ReportsFindExpectedState ==
    /\ [](\A i \in 1..Len(port) :
            /\ port[i].type = "StorePrefetchedImageData"
                   => TagOf(port[i].url) = "Prefetching"
            /\ port[i].type = "StoreImage"
                   => TagOf(port[i].url) = "Decoding"
            /\ port[i].type \in {"StorePrefetchedImageData", "StoreImage"}
                   => \A j \in 1..Len(port) :
                          ( /\ port[j].url = port[i].url
                            /\ port[j].type \in {"StorePrefetchedImageData",
                                                 "StoreImage"} )
                          => j = i)
    /\ [][( /\ IsRecv
            /\ Head(port).type \in {"StorePrefetchedImageData", "StoreImage"} )
          => task' # "failed"]_vars

\* the cache processed the report of a prefetcher while a Decode for the
\* same URL and a GetImage for another URL stood behind it in the inbox
C30_Witness ==
    \E u, v \in Urls :
        /\ u # v
        /\ msg.type = "StorePrefetchedImageData"
        /\ msg.url = u
        /\ TagOf(u) = "Prefetched"
        /\ task = "running"
        /\ Len(port) = 2
        /\ port[1] = Decode(u)
        /\ port[2].type = "GetImage"
        /\ port[2].url = v


(* ---------------------------------------------------------------------- *)
(* Single responses, workers and states                                   *)
(* ---------------------------------------------------------------------- *)
\* the places of the wait map that hold the channel c
Enrolments(c) ==
    {<<u, i>> \in UNION {{u} \X (1..Len(wait_map[u])) : u \in DOMAIN wait_map} :
        wait_map[u][i] = c}

\* C31: no reply channel ever receives more than one response.  A channel
\* that holds a response is not enrolled as a waiter, only channels of
\* WaitForImage are enrolled and each at one place; a response, once
\* received, stays the only one; and the step that answers the waiters of
\* a URL removes them from the wait map.
C31_AtMostOneResponse ==
    /\ [](\A c \in Chans :
            /\ Len(chans[c].resp) <= 1
            /\ Cardinality(Enrolments(c)) <= 1
            /\ Enrolments(c) # {} =>
                   /\ chans[c].resp = <<>>
                   /\ chans[c].kind = "WaitForImage")
    /\ [][\A c \in Chans :
            /\ chans[c].resp # <<>> => chans'[c].resp = chans[c].resp
            /\ (Enrolments(c) # {} /\ chans'[c].resp # <<>>) =>
                   \A u \in DOMAIN wait_map' :
                       \A i \in 1..Len(wait_map'[u]) : wait_map'[u][i] # c]_vars

\* a waiter enrolled while u was in the works was answered on settlement, a
\* GetImage sent after it had been answered ImageNotReady before that, and
\* each channel holds its one response, the wait map being empty
C31_Witness ==
    \E c, d \in Chans :
        /\ c < d
        /\ chans[c].kind = "WaitForImage"
        /\ chans[d].kind = "GetImage"
        /\ chans[c].url = chans[d].url
        /\ chans[d].resp = <<ImageNotReady>>
        /\ Len(chans[c].resp) = 1
        /\ chans[c].resp[1] \in {ImageFailed, ImageReady(Image(<<1>>))}
        /\ wait_map = <<>>

\* the workers of u that have not finished, and their reports still in the
\* inbox
PrefetcherOutstanding(u) ==
    \/ \E i \in PrefetchersOf(u) : prefetchers[i].pc # "done"
    \/ ReportsOf(u, "StorePrefetchedImageData") # {}
DecoderOutstanding(u) ==
    \/ \E i \in DecodersOf(u) : decoders[i].pc # "done"
    \/ ReportsOf(u, "StoreImage") # {}

\* C32: between two iterations of the loop the state map mirrors the
\* outstanding workers: state(u) is Prefetching iff a prefetcher of u is
\* running or its report is still in the inbox, state(u) is Decoding iff a
\* decoder of u is running or its report is still in the inbox; a worker
\* that runs has no report in the inbox; and at most one prefetcher and one
\* decoder exist per URL.
C32_StateMirrorsWorkers ==
    \A u \in Urls :
        /\ TagOf(u) = "Prefetching" <=> PrefetcherOutstanding(u)
        /\ TagOf(u) = "Decoding" <=> DecoderOutstanding(u)
        /\ Cardinality(PrefetchersOf(u)) <= 1
        /\ Cardinality(DecodersOf(u)) <= 1
        /\ Cardinality(ReportsOf(u, "StorePrefetchedImageData"))
               + Cardinality({i \in PrefetchersOf(u) :
                                 prefetchers[i].pc # "done"}) <= 1
        /\ Cardinality(ReportsOf(u, "StoreImage"))
               + Cardinality({i \in DecodersOf(u) :
                                 decoders[i].pc # "done"}) <= 1

\* u is Prefetching with its prefetcher finished and the report waiting in
\* the inbox, while the other URL is Decoding with its decoder running and
\* its prefetcher long finished
C32_Witness ==
    \E u, v \in Urls :
        /\ u # v
        /\ TagOf(u) = "Prefetching"
        /\ \A i \in PrefetchersOf(u) : prefetchers[i].pc = "done"
        /\ ReportsOf(u, "StorePrefetchedImageData") # {}
        /\ TagOf(v) = "Decoding"
        /\ \E i \in DecodersOf(v) : decoders[i].pc = "start"
        /\ \A i \in PrefetchersOf(v) : prefetchers[i].pc = "done"


\* the reply channels the clients passed in a WaitForImage
WaitChans == {c \in Chans : chans[c].kind = "WaitForImage"}

\* C33: in the step in which the cache acknowledges Exit every channel
\* that was still enrolled receives its response and the wait map is left
\* empty; once the cache has exited the wait map is empty and every
\* WaitForImage it received on a channel still open holds its response.
C33_NoWaiterLeftAtExit ==
    /\ [][(task = "running" /\ task' = "exited")
          => /\ wait_map' = <<>>
             /\ \A c \in WaitChans :
                    Enrolments(c) # {} =>
                        /\ Settled(state_map'[chans[c].url].tag)
                        /\ chans'[c].resp =
                               Delivered(c, SettledResponse(
                                                state_map'[chans[c].url]))]_vars
    /\ [](task = "exited" =>
            /\ wait_map = <<>>
            /\ \A c \in WaitChans :
                   (Received(c) /\ ~chans[c].closed)
                       => Len(chans[c].resp) = 1)

\* the Exit stood pending behind a failing fetch with a waiter enrolled:
\* the report processed last answered the waiter ImageFailed and the Exit
\* was acknowledged in that iteration
C33_Witness ==
    \E c \in WaitChans, d \in Chans :
        /\ chans[d].kind = "Exit"
        /\ task = "exited"
        /\ msg = StorePrefetchedImageData(chans[c].url, Err)
        /\ chans[c].resp = <<ImageFailed>>
        /\ chans[d].resp = <<Ack>>
        /\ wait_map = <<>>

\* the responses that the request channels cs hold for the URL u
ResponsesFor(cs, u) ==
    UNION {{cs[c].resp[i] : i \in 1..Len(cs[c].resp)} :
              c \in {d \in 1..Len(cs) :
                        /\ cs[d].url = u
                        /\ cs[d].kind \in {"GetImage", "WaitForImage"}}}

\* C34: the settled answer of a URL is unique.  The responses for u never
\* include both an ImageReady and an ImageFailed: an ImageReady is only
\* held while u is Decoded and carries the stored image, an ImageFailed
\* only while u is Failed.  And an ImageNotReady for u is only sent while
\* no channel holds an ImageReady or ImageFailed for u, in a step that
\* sends no such response either.
C34_SettledAnswerUnique ==
    /\ [](\A u \in Urls :
            \A r \in ResponsesFor(chans, u) :
                /\ r[1] = "ImageReady" =>
                       /\ TagOf(u) = "Decoded"
                       /\ r = ImageReady(state_map[u].image)
                /\ r = ImageFailed => TagOf(u) = "Failed"
                /\ r[1] = "ImageReady" =>
                       ImageFailed \notin ResponsesFor(chans, u))
    /\ [][\A c \in Chans :
            ( /\ IsRequest(c)
              /\ Len(chans'[c].resp) > Len(chans[c].resp)
              /\ chans'[c].resp[Len(chans'[c].resp)] = ImageNotReady )
            => /\ ResponsesFor(chans, chans[c].url) \subseteq {ImageNotReady}
               /\ ResponsesFor(chans', chans[c].url) \subseteq {ImageNotReady}
               /\ ~Settled(TagOf(chans[c].url))]_vars

\* for one URL, a GetImage was answered ImageNotReady, and a GetImage sent
\* after it was answered with the settled response, ImageReady
C34_Witness ==
    \E c, d \in GetChans :
        /\ c < d
        /\ chans[c].url = chans[d].url
        /\ chans[c].resp = <<ImageNotReady>>
        /\ chans[d].resp = <<ImageReady(Image(<<1>>))>>
        /\ ResponsesFor(chans, chans[c].url)
               = {ImageNotReady, ImageReady(Image(<<1>>))}


(* ---------------------------------------------------------------------- *)
(* Messages processed while an Exit is pending                            *)
(* ---------------------------------------------------------------------- *)
\* the states in which a GetImage for u is a misuse, and those in which a
\* WaitForImage is
GetImageFatal(u) ==
    \/ TagOf(u) \in {"Init", "Prefetched"}
    \/ TagOf(u) = "Prefetching" /\ NextOf(u) = "DoNotDecode"
WaitForImageFatal(u) == GetImageFatal(u)

\* C35: a pending Exit does not gate dispatch.  While an Exit is pending a
\* GetImage is answered by the state of its URL, a WaitForImage is answered
\* or enrolled, and the misuse of either still fails the task; a Prefetch
\* of a new URL starts its fetch, and the Exit is then not acknowledged in
\* that iteration; and in any iteration the pending Exit is acknowledged
\* only if no URL is left Prefetching or Decoding, and stays pending
\* otherwise.
C35_PendingExitDoesNotGate ==
    [][( /\ IsRecv
         /\ need_exit # <<>> )
       => LET m == Head(port)
              u == m.url
              c == m.chan
          IN /\ (m.type = "Prefetch" /\ TagOf(u) = "Init") =>
                    /\ state_map' = MapInsert(state_map, u,
                                              Prefetching("DoNotDecode"))
                    /\ prefetchers' = Append(prefetchers, PrefetcherTask(u))
                    /\ task' = "running"
                    /\ need_exit' = need_exit
                    /\ chans' = chans
             /\ m.type = "GetImage" =>
                    IF GetImageFatal(u)
                    THEN task' = "failed" /\ chans' = chans
                    ELSE /\ task' # "failed"
                         /\ wait_map' = wait_map
                         /\ chans'[c].resp =
                                Delivered(c, IF Settled(TagOf(u))
                                             THEN SettledResponse(state_map[u])
                                             ELSE ImageNotReady)
             /\ m.type = "WaitForImage" =>
                    IF WaitForImageFatal(u)
                    THEN task' = "failed" /\ chans' = chans
                    ELSE /\ task' # "failed"
                         /\ IF Settled(TagOf(u))
                            THEN /\ wait_map' = wait_map
                                 /\ chans'[c].resp =
                                        Delivered(c,
                                            SettledResponse(state_map[u]))
                            ELSE /\ wait_map' # <<>>
                                 /\ u \in DOMAIN wait_map'
                                 /\ wait_map'[u] = Append(WaitersOf(u), c)
                                 /\ chans' = chans
             /\ task' = "exited" <=>
                    ( /\ task' # "failed"
                      /\ \A v \in DOMAIN state_map' :
                             state_map'[v].tag
                                 \notin {"Prefetching", "Decoding"} )
             /\ task' = "running" =>
                    /\ need_exit' = need_exit
                    /\ chans'[need_exit[1]].resp = <<>>]_vars

\* the clients sent Prefetch(u), Exit and Prefetch(v): the Prefetch(v),
\* processed last with the Exit pending, started the fetch of v, and the
\* Exit is not acknowledged
C35_Witness ==
    \E u, v \in Urls :
        /\ u # v
        /\ nsent = 3
        /\ sent = {<<"Prefetch", u>>, <<"Exit", NoUrl>>, <<"Prefetch", v>>}
        /\ msg = Prefetch(v)
        /\ need_exit # <<>>
        /\ chans[need_exit[1]].resp = <<>>
        /\ task = "running"
        /\ TagOf(v) = "Prefetching"
        /\ \E i \in PrefetchersOf(v) : prefetchers[i].pc = "start"


====
